---- MODULE Spec2Model ----
(***************************************************************************)
(* Account lifecycle of the movie-catalog backend (routes/accounts.py):    *)
(* register, activate, request-password-reset, complete-password-reset,    *)
(* login and refresh.                                                      *)
(*                                                                         *)
(* The store is the relational database behind the request-scoped          *)
(* AsyncSession: a session reads committed rows, buffers its own writes    *)
(* (unit of work) and applies them atomically at commit.  Every handler is *)
(* written as a sequence of steps, one per await that reaches the          *)
(* database; a step maps the committed rows w and the request r to the     *)
(* set of possible outcomes [w, r].  Spec runs each handler to its         *)
(* response in one action (requests served one after the other); the Race  *)
(* specifications run the same steps one at a time so that two requests    *)
(* interleave.                                                             *)
(***************************************************************************)
EXTENDS Integers, FiniteSets, Sequences, TLC

\* ---------------------------------------------------------------- bounds
MaxTime == 2          \* the clock runs over 0..MaxTime
MaxTokens == 3        \* opaque token strings (uuid) that may be generated
MaxRefresh == 1       \* RefreshToken rows that login may accumulate
MaxLogins == 2        \* the same, where only logins and refreshes are served
MaxIssued == 2        \* token strings drawn where an activate request is held
MaxMovies == 2        \* MovieModel rows the catalog may hold

\* ---------------------------------------------------------------- inputs
Slots == {1, 2}                 \* request tasks that may be in flight
Emails == {"a@x.com", "b@x.com"}
Passwords == {"pw", "pw2"}       \* passwords tried at login and set by a reset
RegisterPasswords == {"pw"}     \* the password accounts register with
TokenInputs == 0 .. MaxTokens   \* 0 is a string no token generator produced

\* ----------------------------------------------------- program constants
ActivationTTL == 1    \* ActivationTokenModel.expires_at = creation + TTL
ResetTTL == 1         \* PasswordResetTokenModel.expires_at = creation + TTL
RefreshTTL == 1       \* settings.LOGIN_TIME_DAYS
AccessTTL == 1        \* lifetime of an access token

MSG_RESET_GENERIC == "If you are registered, you will receive an email with instructions."
MSG_ACTIVATED == "User account activated successfully."
MSG_RESET_DONE == "Password reset successfully."
ERR_EXISTS(email) == <<"A user with this email ", email, " already exists.">>
ERR_NO_GROUP == "Default user group not found."
ERR_CREATE == "An error occurred during user creation."
ERR_ACT_TOKEN == "Invalid or expired activation token."
ERR_ALREADY_ACTIVE == "User account is already active."
ERR_RESET == "Invalid email or token."
ERR_RESET_500 == "An error occurred while resetting the password."
ERR_LOGIN == "Invalid email or password."
ERR_NOT_ACTIVE == "User account is not activated."
ERR_LOGIN_500 == "An error occurred while processing the request."
ERR_REFRESH_MISSING == "Refresh token not found."
ERR_USER_MISSING == "User not found."
ERR_INTERNAL == "Internal Server Error"
ERR_NOT_AUTHENTICATED == "Not authenticated."
ERR_TOKEN_EXPIRED == "Token has expired."
ERR_INVALID_TOKEN == "Invalid token."
ERR_USER_INACTIVE == "User not found or not active."
ERR_HEADER_MISSING == "Authorization header is missing"
ERR_HEADER_FORMAT == "Invalid Authorization header format. Expected 'Bearer <token>'"
ERR_FORBIDDEN == "You don't have permission to edit this profile."
ERR_PROFILE_EXISTS == "User already has a profile."
ERR_INVALID_INPUT == "Invalid input data."
ERR_UPLOAD == "Failed to upload avatar. Please try again later."

VARIABLES
    users,              \* committed UserModel rows
    userGroups,         \* committed UserGroupModel names
    activationTokens,   \* committed ActivationTokenModel rows
    resetTokens,        \* committed PasswordResetTokenModel rows
    refreshTokens,      \* committed RefreshTokenModel rows
    profiles,           \* committed UserProfileModel rows
    movies,             \* committed MovieModel rows: id, name, date
    nextToken,          \* next opaque token string the generator returns
    consumed,           \* history: token strings a request succeeded with
    now,                \* datetime.now(timezone.utc)
    reqs                \* per request task: inputs, locals, session, response

vars == <<users, userGroups, activationTokens, resetTokens, refreshTokens,
          profiles, movies, nextToken, consumed, now, reqs>>

\* the committed rows (and the generator), as the value a step transforms
World ==
    [users |-> users, userGroups |-> userGroups,
     activationTokens |-> activationTokens, resetTokens |-> resetTokens,
     refreshTokens |-> refreshTokens, profiles |-> profiles,
     movies |-> movies,
     nextToken |-> nextToken, consumed |-> consumed]

\* ------------------------------------------------------------- helpers
\* UserModel.create / the password setter store a salted hash, never the text.
Hash(raw) == <<"hash", raw>>

\* UserModel.verify_password
verify_password(u, raw) == u.password = Hash(raw)

\* a primary key no row holds: keys are opaque, so the least free one stands
\* for the next value of the sequence
FreshId(used) ==
    CHOOSE i \in 1 .. Cardinality(used) + 1 :
        i \notin used /\ \A j \in 1 .. i - 1 : j \in used

\* ids handed out by the users sequence: committed, or flushed by a session
UsedUserIds(w) ==
    {u.id : u \in w.users}
      \cup UNION {{n.id : n \in reqs[s].new_user} : s \in Slots}

\* select(UserModel).where(UserModel.email == email)
UserByEmail(w, email) == {u \in w.users : u.email = email}

\* select(UserModel).filter_by(id=id)
UserById(w, id) == {u \in w.users : u.id = id}

\* first() of a query that matches at most one row
First(rows) == IF rows = {} THEN {} ELSE {CHOOSE r \in rows : TRUE}

\* uniqueness constraint on users.email, checked when the INSERT reaches the
\* database (flush) and when the transaction commits
EmailTaken(w, email) == UserByEmail(w, email) # {}

\* a request slot with no task in it
Idle == [op |-> "idle", pc |-> "idle", email |-> "", password |-> "", token |-> 0,
         jwt |-> {}, faults |-> FALSE, user |-> {}, rec |-> {}, new_user |-> {},
         deleted |-> {}, via |-> "", status |-> 0, detail |-> "", exc |-> "none",
         bg |-> <<>>, out |-> {}, propagated |-> FALSE, header |-> "",
         user_id |-> 0, form |-> "", at |-> 0, sent |-> <<>>,
         movie_id |-> 0, name |-> "", date |-> ""]

NewRequest(op, pc, email, password, token) ==
    [Idle EXCEPT !.op = op, !.pc = pc, !.email = email,
                 !.password = password, !.token = token]

\* the handler returns or raises at step r.pc: the response is fixed and the
\* session with the handler's locals is gone
Respond(r, status, detail) ==
    [r EXCEPT !.pc = "done", !.via = r.pc, !.status = status, !.detail = detail,
              !.user = {}, !.rec = {}, !.new_user = {}, !.deleted = {}]

\* the single outcome of a step that only reads
Only(w, r) == {[w |-> w, r |-> r]}

\* the outcomes of a write the store may refuse (connection lost, disk full):
\* those of the write going through, and the failure when the request is
\* served while the store is unreliable
OrFailure(r, failure, outcomes) ==
    outcomes \cup (IF r.faults THEN failure ELSE {})

\* an error no except clause of the handler catches: it leaves the handler as
\* raised, the session is closed with its open transaction discarded, and the
\* server answers with its own 500
Unhandled(w, r, e) ==
    Only(w, [Respond(r, 500, ERR_INTERNAL) EXCEPT !.exc = e,
                                                  !.propagated = TRUE])

\* the expiry test with the comparison turned round
Expired_inverted(rec) == rec.expires_at > now

\* line 124 and line 203: expires_at < now
Expired(rec) == rec.expires_at < now

\* ------------------------------------------------------------ register
\* UserModel.create as it would be were accounts born active
UserModel_create_active(id, email, raw_password, group) ==
    [id |-> id, email |-> email, password |-> Hash(raw_password),
     is_active |-> TRUE, group |-> group]

\* lines 73-77: UserModel.create(email, raw_password, group_id)
UserModel_create(id, email, raw_password, group) ==
    [id |-> id, email |-> email, password |-> Hash(raw_password),
     is_active |-> FALSE, group |-> group]

\* db.flush() as it would be on an autocommit connection: the row is
\* committed at once
Flushed_autocommit(rows, row) == rows \cup {row}

\* line 79: db.flush() sends the INSERT inside the open transaction; the
\* committed rows other sessions read do not change
Flushed(rows, row) == rows

\* lines 81-84: the rows the transaction of register holds when it commits
RegisterWrites(new_user, activation_token) ==
    [users |-> new_user, activationTokens |-> {activation_token}]

\* lines 56-62: existence check
register_user_select_user(w, r) ==
    Only(w, IF First(UserByEmail(w, r.email)) # {}
            THEN Respond(r, 409, ERR_EXISTS(r.email))
            ELSE [r EXCEPT !.pc = "reg_select_group"])

\* lines 64-70: default group lookup
register_user_select_group(w, r) ==
    Only(w, IF "user" \notin w.userGroups
            THEN Respond(r, 500, ERR_NO_GROUP)
            ELSE [r EXCEPT !.pc = "reg_flush"])

\* lines 86-91: except SQLAlchemyError: rollback, 500
register_user_except(w, r, e) ==
    Only(w, [Respond(r, 500, ERR_CREATE) EXCEPT !.exc = e])

\* lines 72-79: UserModel.create, db.add, db.flush
register_user_flush(w, r) ==
    LET new_user == UserModel_create(FreshId(UsedUserIds(w)), r.email,
                                     r.password, "user")
    IN
    OrFailure(r, register_user_except(w, r, "OperationalError"),
        IF EmailTaken(w, r.email)
        THEN register_user_except(w, r, "IntegrityError")
        ELSE Only([w EXCEPT !.users = Flushed(w.users, new_user)],
                  [r EXCEPT !.pc = "reg_commit", !.new_user = {new_user}]))

\* lines 81-84: ActivationTokenModel(user_id), db.add, db.commit
register_user_commit(w, r) ==
    LET new_user == CHOOSE u \in r.new_user : TRUE
        activation_token == [user_id |-> new_user.id, token |-> w.nextToken,
                             expires_at |-> now + ActivationTTL]
        writes == RegisterWrites(r.new_user, activation_token)
    IN
    OrFailure(r, register_user_except(w, r, "OperationalError"),
        IF EmailTaken(w, r.email)
        THEN register_user_except(w, r, "IntegrityError")
        ELSE Only([w EXCEPT !.users = @ \cup writes.users,
                            !.activationTokens = @ \cup writes.activationTokens,
                            !.nextToken = @ + 1],
                  [r EXCEPT !.pc = "reg_refresh", !.user = r.new_user,
                            !.rec = {activation_token}, !.new_user = {}]))

\* lines 85 and 93-104: db.refresh, add_task(send_activation_email), 201
register_user_respond(w, r) ==
    LET u == CHOOSE x \in r.user : TRUE
        t == CHOOSE x \in r.rec : TRUE
    IN
    OrFailure(r, register_user_except(w, r, "OperationalError"),
        Only(w, [Respond(r, 201, "") EXCEPT
                    !.bg = Append(r.bg, [task |-> "send_activation_email",
                                         email |-> u.email, token |-> t.token]),
                    !.out = {[id |-> u.id, email |-> u.email]}]))

\* the lookup as it would be were the record found by the email alone
ActivationByEmail_only(w, email, token) ==
    {t \in w.activationTokens :
        \E u \in w.users : u.id = t.user_id /\ u.email = email}

\* ------------------------------------------------------------ activate
\* lines 112-120: ActivationTokenModel joined to UserModel on (email, token)
ActivationByEmailToken(w, email, token) ==
    {t \in w.activationTokens :
        /\ t.token = token
        /\ \E u \in w.users : u.id = t.user_id /\ u.email = email}

\* line 134: UPDATE users SET is_active = true WHERE id = user.id
SetActive(rows, ids) ==
    {IF u.id \in ids THEN [u EXCEPT !.is_active = TRUE] ELSE u : u \in rows}

\* lines 121-135: the lookup and the branches up to the next commit
activate_account_select(w, r) ==
    LET rows == ActivationByEmailToken(w, r.email, r.token) IN
    IF rows = {}
    THEN Only(w, Respond(r, 400, ERR_ACT_TOKEN))
    ELSE {[w |-> w,
           r |-> IF Expired(token_record)
                 THEN [r EXCEPT !.pc = "act_commit_expired",
                                !.rec = {token_record},
                                !.deleted = {token_record}]
                 ELSE IF \E u \in UserById(w, token_record.user_id) : u.is_active
                 THEN Respond(r, 400, ERR_ALREADY_ACTIVE)
                 ELSE [r EXCEPT !.pc = "act_commit",
                                !.rec = {token_record},
                                !.user = UserById(w, token_record.user_id),
                                !.deleted = {token_record}]]
          : token_record \in rows}

\* lines 126-128: the expired record is deleted, then 400
activate_account_commit_expired(w, r) ==
    OrFailure(r, Unhandled(w, r, "OperationalError"),
        Only([w EXCEPT !.activationTokens = @ \ r.deleted],
             Respond(r, 400, ERR_ACT_TOKEN)))

\* the commit as it would be were the record left in the table
activate_account_commit_keep(w, r) ==
    OrFailure(r, Unhandled(w, r, "OperationalError"),
        Only([w EXCEPT !.users = SetActive(@, {u.id : u \in r.user}),
                       !.consumed = @ \cup {r.token}],
             Respond(r, 200, MSG_ACTIVATED)))

\* lines 134-138: is_active = True, delete the record, commit, 200
activate_account_commit(w, r) ==
    OrFailure(r, Unhandled(w, r, "OperationalError"),
        Only([w EXCEPT !.users = SetActive(@, {u.id : u \in r.user}),
                       !.activationTokens = @ \ r.deleted,
                       !.consumed = @ \cup {r.token}],
             Respond(r, 200, MSG_ACTIVATED)))

\* ---------------------------------------------- request password reset
\* line 158: the rows DELETE ... WHERE user_id = user.id matches
ResetTokensOf(w, ids) == {t \in w.resetTokens : t.user_id \in ids}

\* the lookup as it would be were an unknown email reported to the caller
request_password_reset_token_select_404(w, r) ==
    LET user == First(UserByEmail(w, r.email)) IN
    Only(w, IF user = {}
            THEN Respond(r, 404, ERR_USER_MISSING)
            ELSE IF \E u \in user : ~u.is_active
            THEN Respond(r, 200, MSG_RESET_GENERIC)
            ELSE [r EXCEPT !.pc = "rr_delete", !.user = user])

\* lines 149-156: account lookup, generic answer when absent or inactive
request_password_reset_token_select(w, r) ==
    LET user == First(UserByEmail(w, r.email)) IN
    Only(w, IF user = {} \/ \E u \in user : ~u.is_active
            THEN Respond(r, 200, MSG_RESET_GENERIC)
            ELSE [r EXCEPT !.pc = "rr_delete", !.user = user])

\* line 158: delete(PasswordResetTokenModel) inside the open transaction
request_password_reset_token_delete(w, r) ==
    OrFailure(r, Unhandled(w, r, "OperationalError"),
        Only(w, [r EXCEPT !.pc = "rr_commit",
                          !.deleted = ResetTokensOf(w, {u.id : u \in r.user})]))

\* the commit as it would be were the mail queued before it
request_password_reset_token_commit_early(w, r) ==
    LET user == CHOOSE u \in r.user : TRUE
        reset_token == [user_id |-> user.id, token |-> w.nextToken,
                        expires_at |-> now + ResetTTL]
        queued == [r EXCEPT
                     !.bg = Append(r.bg, [task |-> "send_password_reset_email",
                                          email |-> user.email,
                                          token |-> reset_token.token])]
    IN
    OrFailure(r, Unhandled(w, queued, "OperationalError"),
        Only([w EXCEPT !.resetTokens = (@ \ r.deleted) \cup {reset_token},
                       !.nextToken = @ + 1],
             Respond(queued, 200, MSG_RESET_GENERIC)))

\* lines 160-178: insert the fresh record, commit, queue the mail, 200
request_password_reset_token_commit(w, r) ==
    LET user == CHOOSE u \in r.user : TRUE
        reset_token == [user_id |-> user.id, token |-> w.nextToken,
                        expires_at |-> now + ResetTTL]
    IN
    OrFailure(r, Unhandled(w, r, "OperationalError"),
        Only([w EXCEPT !.resetTokens = (@ \ r.deleted) \cup {reset_token},
                       !.nextToken = @ + 1],
             [Respond(r, 200, MSG_RESET_GENERIC) EXCEPT
                 !.bg = Append(r.bg, [task |-> "send_password_reset_email",
                                      email |-> user.email,
                                      token |-> reset_token.token])]))

\* --------------------------------------------- complete password reset
\* the password update as it would be were the row rebuilt from defaults
SetPassword_rebuild(rows, ids, raw) ==
    {IF u.id \in ids
     THEN [u EXCEPT !.password = Hash(raw), !.is_active = FALSE]
     ELSE u : u \in rows}

\* line 209: UPDATE users SET password = hash WHERE id = user.id
SetPassword(rows, ids, raw) ==
    {IF u.id \in ids THEN [u EXCEPT !.password = Hash(raw)] ELSE u : u \in rows}

\* lines 188-191: account lookup
reset_password_select_user(w, r) ==
    LET user == First(UserByEmail(w, r.email)) IN
    Only(w, IF user = {} \/ \E u \in user : ~u.is_active
            THEN Respond(r, 400, ERR_RESET)
            ELSE [r EXCEPT !.pc = "rp_select_token", !.user = user])

\* lines 193-206: record lookup by account, token equality, expiry
reset_password_select_token(w, r) ==
    LET rows == ResetTokensOf(w, {u.id : u \in r.user}) IN
    IF rows = {}
    THEN Only(w, Respond(r, 400, ERR_RESET))
    ELSE {[w |-> w,
           r |-> [r EXCEPT !.pc = IF token_record.token # r.token
                                  THEN "rp_commit_mismatch"
                                  ELSE IF Expired(token_record)
                                  THEN "rp_commit_expired"
                                  ELSE "rp_commit",
                           !.rec = {token_record},
                           !.deleted = {token_record}]]
          : token_record \in rows}

\* lines 197-200: the mismatching record is deleted, then 400
reset_password_commit_mismatch(w, r) ==
    OrFailure(r, Unhandled(w, r, "OperationalError"),
        Only([w EXCEPT !.resetTokens = @ \ r.deleted],
             Respond(r, 400, ERR_RESET)))

\* the expired branch as it would be without the delete
reset_password_commit_expired_keep(w, r) ==
    Only(w, Respond(r, 400, ERR_RESET))

\* lines 203-206: the expired record is deleted, then 400
reset_password_commit_expired(w, r) ==
    OrFailure(r, Unhandled(w, r, "OperationalError"),
        Only([w EXCEPT !.resetTokens = @ \ r.deleted],
             Respond(r, 400, ERR_RESET)))

\* lines 212-214: except SQLAlchemyError: rollback, 500
reset_password_except(w, r, e) ==
    Only(w, [Respond(r, 500, ERR_RESET_500) EXCEPT !.exc = e])

\* lines 208-222: new password, delete the record, commit, queue the mail, 200
reset_password_commit(w, r) ==
    LET user == CHOOSE u \in r.user : TRUE IN
    OrFailure(r, reset_password_except(w, r, "OperationalError"),
        Only([w EXCEPT !.users = SetPassword(@, {user.id}, r.password),
                       !.resetTokens = @ \ r.deleted,
                       !.consumed = @ \cup {r.token}],
             [Respond(r, 200, MSG_RESET_DONE) EXCEPT
                 !.bg = Append(r.bg, [task |-> "send_password_reset_success_email",
                                      email |-> user.email, token |-> 0])]))

\* --------------------------------------------------------- token codec
\* create_refresh_token / create_access_token: signed claims with an expiry
create_refresh_token(user_id) ==
    [typ |-> "refresh", user_id |-> user_id, exp |-> now + RefreshTTL]

\* the access token the codec signs at time t for the claims {user_id}
access_token_signed_at(user_id, t) ==
    [typ |-> "access", user_id |-> user_id, exp |-> t + AccessTTL]

create_access_token(user_id) == access_token_signed_at(user_id, now)

\* decode_access_token as it would be were every failure one error
decode_access_token_merged(jwt) ==
    IF jwt.typ # "access" \/ jwt.exp < now
    THEN [error |-> "InvalidTokenError", user_id |-> 0]
    ELSE [error |-> "none", user_id |-> jwt.user_id]

\* decode_access_token: the claims, or the security error it raises; a string
\* that is no access token signed by the codec is invalid, a signed one past
\* its expiry is expired
decode_access_token(jwt) ==
    IF jwt.typ # "access"
    THEN [error |-> "InvalidTokenError", user_id |-> 0]
    ELSE IF jwt.exp < now
    THEN [error |-> "TokenExpiredError", user_id |-> 0]
    ELSE [error |-> "none", user_id |-> jwt.user_id]

\* decode_refresh_token: "ok", or the security error it raises
decode_refresh_token(jwt) ==
    IF jwt.typ # "refresh" THEN "InvalidTokenError"
    ELSE IF jwt.exp < now THEN "TokenExpiredError"
    ELSE "ok"

\* bearer strings a client may present to /refresh/: a refresh token the codec
\* signed at some time up to now, an access token, or an unsigned string
JwtInputs ==
    {[typ |-> "refresh", user_id |-> u, exp |-> e] :
        u \in 1 .. Cardinality(Emails), e \in RefreshTTL .. now + RefreshTTL}
    \cup {create_access_token(1)}
    \cup {[typ |-> "garbage", user_id |-> 0, exp |-> 0]}

\* --------------------------------------------------------------- login
\* the credential check as it would be were the active flag tested first
login_user_select_flag_first(w, r) ==
    LET user == First(UserByEmail(w, r.email)) IN
    Only(w, IF user = {}
            THEN Respond(r, 401, ERR_LOGIN)
            ELSE IF \E u \in user : ~u.is_active
            THEN Respond(r, 403, ERR_NOT_ACTIVE)
            ELSE IF \E u \in user : ~verify_password(u, r.password)
            THEN Respond(r, 401, ERR_LOGIN)
            ELSE [r EXCEPT !.pc = "lg_commit", !.user = user,
                           !.jwt = {create_refresh_token(u.id) : u \in user}])

\* the credential check as it would be were an unknown email reported apart
login_user_select_404(w, r) ==
    LET user == First(UserByEmail(w, r.email)) IN
    Only(w, IF user = {}
            THEN Respond(r, 404, ERR_USER_MISSING)
            ELSE IF \E u \in user : ~verify_password(u, r.password)
            THEN Respond(r, 401, ERR_LOGIN)
            ELSE IF \E u \in user : ~u.is_active
            THEN Respond(r, 403, ERR_NOT_ACTIVE)
            ELSE [r EXCEPT !.pc = "lg_commit", !.user = user,
                           !.jwt = {create_refresh_token(u.id) : u \in user}])

\* lines 232-241: account lookup, password, active flag, refresh token minted
login_user_select(w, r) ==
    LET user == First(UserByEmail(w, r.email)) IN
    Only(w, IF user = {} \/ \E u \in user : ~verify_password(u, r.password)
            THEN Respond(r, 401, ERR_LOGIN)
            ELSE IF \E u \in user : ~u.is_active
            THEN Respond(r, 403, ERR_NOT_ACTIVE)
            ELSE [r EXCEPT !.pc = "lg_commit", !.user = user,
                           !.jwt = {create_refresh_token(u.id) : u \in user}])

\* lines 251-254: except SQLAlchemyError: rollback, 500
login_user_except(w, r, e) ==
    Only(w, [Respond(r, 500, ERR_LOGIN_500) EXCEPT !.exc = e])

\* the insert as it would be were the account's earlier records replaced
login_user_commit_replace(w, r) ==
    LET user == CHOOSE u \in r.user : TRUE
        jwt_refresh_token == CHOOSE j \in r.jwt : TRUE
        refresh_token == [id |-> FreshId({t.id : t \in w.refreshTokens}),
                          user_id |-> user.id, token |-> jwt_refresh_token,
                          expires_at |-> now + RefreshTTL]
    IN
    OrFailure(r, login_user_except(w, r, "OperationalError"),
        Only([w EXCEPT !.refreshTokens =
                         {t \in @ : t.user_id # user.id} \cup {refresh_token}],
             [Respond(r, 201, "") EXCEPT
                 !.out = {[access_token |-> create_access_token(user.id),
                           refresh_token |-> jwt_refresh_token]}]))

\* lines 243-257: RefreshTokenModel.create, flush, commit, access token, 201
login_user_commit(w, r) ==
    LET user == CHOOSE u \in r.user : TRUE
        jwt_refresh_token == CHOOSE j \in r.jwt : TRUE
        refresh_token == [id |-> FreshId({t.id : t \in w.refreshTokens}),
                          user_id |-> user.id, token |-> jwt_refresh_token,
                          expires_at |-> now + RefreshTTL]
    IN
    OrFailure(r, login_user_except(w, r, "OperationalError"),
        Only([w EXCEPT !.refreshTokens = @ \cup {refresh_token}],
             [Respond(r, 201, "") EXCEPT
                 !.out = {[access_token |-> create_access_token(user.id),
                           refresh_token |-> jwt_refresh_token]}]))

\* ------------------------------------------------------------- refresh
\* the exchange as it would be were the signature alone trusted
refresh_access_token_select_token_stateless(w, r) ==
    LET jwt == CHOOSE j \in r.jwt : TRUE
        decoded == decode_refresh_token(jwt)
    IN
    Only(w, IF decoded # "ok"
            THEN [Respond(r, 400, decoded) EXCEPT !.exc = decoded]
            ELSE [r EXCEPT !.pc = "rf_select_user"])

\* lines 266-275: decode, then the record lookup by the exact token string
refresh_access_token_select_token(w, r) ==
    LET jwt == CHOOSE j \in r.jwt : TRUE
        decoded == decode_refresh_token(jwt)
    IN
    Only(w, IF decoded # "ok"
            THEN [Respond(r, 400, decoded) EXCEPT !.exc = decoded]
            ELSE IF {t \in w.refreshTokens : t.token = jwt} = {}
            THEN Respond(r, 401, ERR_REFRESH_MISSING)
            ELSE [r EXCEPT !.pc = "rf_select_user"])

\* the exchange as it would be were the subject read from the record's own
\* key instead of the token's user_id claim
refresh_access_token_select_user_by_row(w, r) ==
    LET jwt == CHOOSE j \in r.jwt : TRUE
        rows == {t.id : t \in {x \in w.refreshTokens : x.token = jwt}}
        user == UNION {UserById(w, id) : id \in rows}
    IN
    Only(w, IF user = {}
            THEN Respond(r, 404, ERR_USER_MISSING)
            ELSE [Respond(r, 200, "") EXCEPT
                    !.out = {[access_token |-> create_access_token(id)] :
                                id \in rows}])

\* the exchange as it would be were the presented token used up by it
refresh_access_token_select_user_rotate(w, r) ==
    LET jwt == CHOOSE j \in r.jwt : TRUE
        user == First(UserById(w, jwt.user_id))
    IN
    IF user = {}
    THEN Only(w, Respond(r, 404, ERR_USER_MISSING))
    ELSE Only([w EXCEPT !.refreshTokens = {t \in @ : t.token # jwt}],
              [Respond(r, 200, "") EXCEPT
                  !.out = {[access_token |-> create_access_token(jwt.user_id)]}])

\* lines 277-283: subject lookup, new access token, 200
refresh_access_token_select_user(w, r) ==
    LET jwt == CHOOSE j \in r.jwt : TRUE
        user == First(UserById(w, jwt.user_id))
    IN
    Only(w, IF user = {}
            THEN Respond(r, 404, ERR_USER_MISSING)
            ELSE [Respond(r, 200, "") EXCEPT
                    !.out = {[access_token |-> create_access_token(jwt.user_id)]}])

\* ------------------------------------------------- authentication gate
\* ids a token may name: 0 stands for claims without a subject, the largest
\* for an id no account has
SubjectIds == 0 .. Cardinality(Emails) + 1

\* strings a client may send as the bearer token: an access token the codec
\* signed at some time up to now, a refresh token, or an unsigned string
AccessInputs ==
    {access_token_signed_at(u, t) : u \in SubjectIds, t \in 0 .. now}
    \cup {create_refresh_token(1)}
    \cup {[typ |-> "garbage", user_id |-> 0, exp |-> 0]}

\* the Authorization header: absent, not of the form 'Bearer <token>', or
\* 'Bearer <token>'
Headers == {"missing", "malformed", "bearer"}

\* security = HTTPBearer(auto_error=False): the credentials, or none when the
\* header is absent or is not a bearer header
HTTPBearer(r) == IF r.header = "bearer" THEN r.jwt ELSE {}

\* auth.py lines 21-52: credentials, decode, subject claim
get_current_user_decode(w, r) ==
    LET credentials == HTTPBearer(r) IN
    Only(w, IF credentials = {}
            THEN Respond(r, 401, ERR_NOT_AUTHENTICATED)
            ELSE LET payload == decode_access_token(CHOOSE j \in credentials : TRUE)
                 IN
                 IF payload.error = "TokenExpiredError"
                 THEN Respond(r, 401, ERR_TOKEN_EXPIRED)
                 ELSE IF payload.error = "InvalidTokenError"
                 THEN Respond(r, 401, ERR_INVALID_TOKEN)
                 ELSE IF payload.user_id = 0
                 THEN Respond(r, 401, ERR_INVALID_TOKEN)
                 ELSE [r EXCEPT !.pc = "gcu_select",
                                !.user_id = payload.user_id])

\* the account lookup as it would be without the test of the active flag
get_current_user_select_any(w, r) ==
    LET user == First(UserById(w, r.user_id)) IN
    Only(w, IF user = {}
            THEN Respond(r, 401, ERR_USER_INACTIVE)
            ELSE [Respond(r, 200, "") EXCEPT !.out = user])

\* auth.py lines 54-64: account lookup, active flag, the principal
get_current_user_select(w, r) ==
    LET user == First(UserById(w, r.user_id)) IN
    Only(w, IF user = {} \/ \E u \in user : ~u.is_active
            THEN Respond(r, 401, ERR_USER_INACTIVE)
            ELSE [Respond(r, 200, "") EXCEPT !.out = user])

\* ------------------------------------------------------------ profiles
\* profiles.py lines 21-35: the token of the header, or the error raised
_get_bearer_token(r) ==
    IF r.header = "missing" THEN [error |-> ERR_HEADER_MISSING, token |-> {}]
    ELSE IF r.header # "bearer" \/ r.jwt = {}
    THEN [error |-> ERR_HEADER_FORMAT, token |-> {}]
    ELSE [error |-> "", token |-> r.jwt]

\* the test as it would be were every caller taken for an administrator
_is_admin_anyone(user) == user.group = user.group

\* profiles.py line 41
_is_admin(user) == user.group = "admin"

\* profiles.py lines 63-77: header, decode, subject claim; every failure of
\* the decode is reported with the one message
create_profile_decode(w, r) ==
    LET token == _get_bearer_token(r) IN
    Only(w, IF token.error # ""
            THEN Respond(r, 401, token.error)
            ELSE LET payload == decode_access_token(CHOOSE j \in token.token : TRUE)
                 IN
                 IF payload.error # "none"
                 THEN Respond(r, 401, ERR_TOKEN_EXPIRED)
                 ELSE IF payload.user_id = 0
                 THEN Respond(r, 401, ERR_TOKEN_EXPIRED)
                 ELSE [r EXCEPT !.pc = "cp_select_user",
                                !.rec = {payload.user_id}])

\* profiles.py lines 80-84: the caller's account, active flag
create_profile_select_user(w, r) ==
    LET current_user == UNION {First(UserById(w, id)) : id \in r.rec} IN
    Only(w, IF current_user = {} \/ \E u \in current_user : ~u.is_active
            THEN Respond(r, 401, ERR_USER_INACTIVE)
            ELSE [r EXCEPT !.pc = "cp_select_target", !.user = current_user])

\* profiles.py lines 87-94: permission, then the target account
create_profile_select_target(w, r) ==
    LET current_user == CHOOSE u \in r.user : TRUE
        target_user == First(UserById(w, r.user_id))
    IN
    Only(w, IF current_user.id # r.user_id /\ ~_is_admin(current_user)
            THEN Respond(r, 403, ERR_FORBIDDEN)
            ELSE IF target_user = {} \/ \E u \in target_user : ~u.is_active
            THEN Respond(r, 401, ERR_USER_INACTIVE)
            ELSE [r EXCEPT !.pc = "cp_select_profile"])

\* schemas/profiles.py lines 11-18: the fields of ProfileCreateSchema, none of
\* which has a default
ProfileCreateSchema_fields ==
    {"user_id", "first_name", "last_name", "gender", "date_of_birth", "info",
     "avatar", "avatar_content_type"}

\* the keyword arguments as they would be were every field passed
ProfileCreateSchema_kwargs_complete == ProfileCreateSchema_fields

\* profiles.py lines 106-111: the keyword arguments the handler passes
ProfileCreateSchema_kwargs ==
    {"first_name", "last_name", "gender", "date_of_birth", "info", "avatar"}

\* schemas/profiles.py lines 10-55: the model validates when every field is
\* given, no other is (extra = forbid), and the validators accept the values
ProfileCreateSchema(kwargs, form) ==
    kwargs = ProfileCreateSchema_fields /\ form = "ok"

\* profiles.py lines 97-120: existing profile, schema, avatar extension
create_profile_validate(w, r) ==
    Only(w, IF \E p \in w.profiles : p.user_id = r.user_id
            THEN Respond(r, 400, ERR_PROFILE_EXISTS)
            ELSE IF ~ProfileCreateSchema(ProfileCreateSchema_kwargs, r.form)
            THEN Respond(r, 400, ERR_INVALID_INPUT)
            ELSE [r EXCEPT !.pc = "cp_upload"])

\* profiles.py lines 122-133: the upload succeeds or fails
create_profile_upload(w, r) ==
    {[w |-> w, r |-> [r EXCEPT !.pc = "cp_commit"]],
     [w |-> w, r |-> Respond(r, 500, ERR_UPLOAD)]}

\* profiles.py lines 136-150: insert the profile, commit, 201
create_profile_commit(w, r) ==
    LET new_profile == [id |-> Cardinality(w.profiles) + 1,
                        user_id |-> r.user_id]
    IN
    OrFailure(r, Unhandled(w, r, "OperationalError"),
        Only([w EXCEPT !.profiles = @ \cup {new_profile}],
             [Respond(r, 201, "") EXCEPT !.out = {new_profile}]))

\* -------------------------------------------------------------- movies
\* Of a MovieModel row the model keeps id, name and date; the other columns
\* and the country, genre, actor and language rows the handlers look up or
\* insert take no part in any test the handlers make on a movie.

\* movies.py lines 182-189: a row with the same name and date, 409
create_movie_select(w, r) ==
    LET duplicate == First({m \in w.movies : m.name = r.name /\ m.date = r.date})
    IN
    Only(w, IF duplicate # {}
            THEN Respond(r, 409,
                         "Movie with the same name and date already exists.")
            ELSE [r EXCEPT !.pc = "cm_commit"])

\* movies.py lines 191-229: insert the row, commit, 201 with the movie
create_movie_commit(w, r) ==
    LET movie == [id |-> FreshId({m.id : m \in w.movies}),
                  name |-> r.name, date |-> r.date]
    IN
    Only([w EXCEPT !.movies = @ \cup {movie}],
         [Respond(r, 201, "") EXCEPT !.out = {movie}])

\* movies.py lines 236-251: the row of movie_id, or 404
update_movie_select(w, r) ==
    LET movie == First({m \in w.movies : m.id = r.movie_id}) IN
    Only(w, IF movie = {}
            THEN Respond(r, 404, "Movie with the given ID was not found.")
            ELSE [r EXCEPT !.pc = "um_commit", !.rec = movie])

\* movies.py lines 253-282: every field given ("None" is a field left out)
\* is assigned to the row, commit, 200
update_movie_commit(w, r) ==
    LET ids == {m.id : m \in r.rec}
        assigned(m) ==
            [m EXCEPT !.name = IF r.name # "None" THEN r.name ELSE @,
                      !.date = IF r.date # "None" THEN r.date ELSE @]
    IN
    Only([w EXCEPT !.movies =
                {IF m.id \in ids THEN assigned(m) ELSE m : m \in @}],
         Respond(r, 200, "Movie updated successfully."))

\* movies.py lines 288-293: the row of movie_id, or 404
delete_movie_select(w, r) ==
    LET movie == First({m \in w.movies : m.id = r.movie_id}) IN
    Only(w, IF movie = {}
            THEN Respond(r, 404, "Movie with the given ID was not found.")
            ELSE [r EXCEPT !.pc = "dm_commit", !.rec = movie])

\* movies.py lines 295-297: delete the row, commit, 204
delete_movie_commit(w, r) ==
    LET ids == {m.id : m \in r.rec} IN
    Only([w EXCEPT !.movies = {m \in @ : m.id \notin ids}],
         Respond(r, 204, ""))

\* ------------------------------------------------------------- driving
\* the step the request is at
StepOf(w, r) ==
    CASE r.pc = "reg_select_user" -> register_user_select_user(w, r)
      [] r.pc = "reg_select_group" -> register_user_select_group(w, r)
      [] r.pc = "reg_flush" -> register_user_flush(w, r)
      [] r.pc = "reg_commit" -> register_user_commit(w, r)
      [] r.pc = "reg_refresh" -> register_user_respond(w, r)
      [] r.pc = "act_select" -> activate_account_select(w, r)
      [] r.pc = "act_commit_expired" -> activate_account_commit_expired(w, r)
      [] r.pc = "act_commit" -> activate_account_commit(w, r)
      [] r.pc = "rr_select" -> request_password_reset_token_select(w, r)
      [] r.pc = "rr_delete" -> request_password_reset_token_delete(w, r)
      [] r.pc = "rr_commit" -> request_password_reset_token_commit(w, r)
      [] r.pc = "rp_select_user" -> reset_password_select_user(w, r)
      [] r.pc = "rp_select_token" -> reset_password_select_token(w, r)
      [] r.pc = "rp_commit_mismatch" -> reset_password_commit_mismatch(w, r)
      [] r.pc = "rp_commit_expired" -> reset_password_commit_expired(w, r)
      [] r.pc = "rp_commit" -> reset_password_commit(w, r)
      [] r.pc = "lg_select" -> login_user_select(w, r)
      [] r.pc = "lg_commit" -> login_user_commit(w, r)
      [] r.pc = "rf_select_token" -> refresh_access_token_select_token(w, r)
      [] r.pc = "rf_select_user" -> refresh_access_token_select_user(w, r)
      [] r.pc = "gcu_decode" -> get_current_user_decode(w, r)
      [] r.pc = "gcu_select" -> get_current_user_select(w, r)
      [] r.pc = "cp_decode" -> create_profile_decode(w, r)
      [] r.pc = "cp_select_user" -> create_profile_select_user(w, r)
      [] r.pc = "cp_select_target" -> create_profile_select_target(w, r)
      [] r.pc = "cp_select_profile" -> create_profile_validate(w, r)
      [] r.pc = "cp_upload" -> create_profile_upload(w, r)
      [] r.pc = "cp_commit" -> create_profile_commit(w, r)
      [] r.pc = "cm_select" -> create_movie_select(w, r)
      [] r.pc = "cm_commit" -> create_movie_commit(w, r)
      [] r.pc = "um_select" -> update_movie_select(w, r)
      [] r.pc = "um_commit" -> update_movie_commit(w, r)
      [] r.pc = "dm_select" -> delete_movie_select(w, r)
      [] r.pc = "dm_commit" -> delete_movie_commit(w, r)

\* the handler run from r to its response with no other request in between
RECURSIVE Run(_, _)
Run(w, r) ==
    IF r.pc = "done" THEN Only(w, r)
    ELSE UNION {Run(o.w, o.r) : o \in StepOf(w, r)}

\* one of the outcomes becomes the next state
Apply(s, outcomes) ==
    \E o \in outcomes :
        /\ users' = o.w.users
        /\ userGroups' = o.w.userGroups
        /\ activationTokens' = o.w.activationTokens
        /\ resetTokens' = o.w.resetTokens
        /\ refreshTokens' = o.w.refreshTokens
        /\ profiles' = o.w.profiles
        /\ movies' = o.w.movies
        /\ nextToken' = o.w.nextToken
        /\ consumed' = o.w.consumed
        /\ reqs' = [reqs EXCEPT ![s] = o.r]
        /\ now' = now

\* no task occupies the slot
Free(s) == reqs[s].pc = "idle"

InFlight(s, op) == reqs[s].op = op /\ reqs[s].pc \notin {"idle", "done"}

\* requests in flight that will still draw a token string
TokenDrawers == {s \in Slots : InFlight(s, "register") \/ InFlight(s, "request_reset")}

\* the generator has a string left for one more request
TokenLeft == nextToken + Cardinality(TokenDrawers) <= MaxTokens

\* login requests in flight that will still insert a RefreshToken row
LoginsInFlight == {s \in Slots : InFlight(s, "login")}

RefreshRowLeft ==
    Cardinality(refreshTokens) + Cardinality(LoginsInFlight) < MaxRefresh

\* the requests a client can send
RegisterRequests ==
    {NewRequest("register", "reg_select_user", e, p, 0) :
        e \in Emails, p \in RegisterPasswords}

ActivateRequests ==
    {NewRequest("activate", "act_select", e, "", t) :
        e \in Emails, t \in TokenInputs}

RequestResetRequests ==
    {NewRequest("request_reset", "rr_select", e, "", 0) : e \in Emails}

ResetRequests ==
    {NewRequest("reset", "rp_select_user", e, p, t) :
        e \in Emails, p \in Passwords, t \in TokenInputs}

LoginRequests ==
    {NewRequest("login", "lg_select", e, p, 0) : e \in Emails, p \in Passwords}

RefreshRequests ==
    {[NewRequest("refresh", "rf_select_token", "", "", 0) EXCEPT !.jwt = {j}] :
        j \in JwtInputs}

\* ---------------------------------------------------------------- Init
Init ==
    /\ users = {}
    /\ userGroups \in {{"user", "admin"}, {"admin"}}
    /\ activationTokens = {}
    /\ resetTokens = {}
    /\ refreshTokens = {}
    /\ profiles = {}
    /\ movies = {}
    /\ nextToken = 1
    /\ consumed = {}
    /\ now = 0
    /\ reqs = [s \in Slots |-> Idle]

\* ------------------------------------------- requests served one by one
\* POST /register/
register_user(s) ==
    /\ Free(s) /\ TokenLeft
    /\ \E r \in RegisterRequests : Apply(s, Run(World, r))

\* POST /activate/
activate_account(s) ==
    /\ Free(s)
    /\ \E r \in ActivateRequests : Apply(s, Run(World, r))

\* POST /password-reset/request/
request_password_reset_token(s) ==
    /\ Free(s) /\ TokenLeft
    /\ \E r \in RequestResetRequests : Apply(s, Run(World, r))

\* POST /reset-password/complete/
reset_password(s) ==
    /\ Free(s)
    /\ \E r \in ResetRequests : Apply(s, Run(World, r))

\* POST /login/
login_user(s) ==
    /\ Free(s) /\ RefreshRowLeft
    /\ \E r \in LoginRequests : Apply(s, Run(World, r))

\* POST /refresh/
refresh_access_token(s) ==
    /\ Free(s)
    /\ \E r \in RefreshRequests : Apply(s, Run(World, r))

\* the response reaches the client and the task ends
Deliver(s) ==
    /\ reqs[s].pc = "done"
    /\ reqs' = [reqs EXCEPT ![s] = Idle]
    /\ UNCHANGED <<users, userGroups, activationTokens, resetTokens,
                   refreshTokens, profiles, movies, nextToken, consumed, now>>

\* time passes
Tick ==
    /\ now < MaxTime
    /\ now' = now + 1
    /\ UNCHANGED <<users, userGroups, activationTokens, resetTokens,
                   refreshTokens, profiles, movies, nextToken, consumed, reqs>>

Next ==
    \/ register_user(1)
    \/ activate_account(1)
    \/ request_password_reset_token(1)
    \/ reset_password(1)
    \/ login_user(1)
    \/ refresh_access_token(1)
    \/ Deliver(1)
    \/ Tick

Spec == Init /\ [][Next]_vars

\* ------------------------------------------ requests that interleave
\* a request arrives and waits for its first database call
Arrive(s, r) ==
    /\ Free(s)
    /\ reqs' = [reqs EXCEPT ![s] = r]
    /\ UNCHANGED <<users, userGroups, activationTokens, resetTokens,
                   refreshTokens, profiles, movies, nextToken, consumed, now>>

\* the request in slot s, being a call of handler op, runs to its next await
Advance(s, op) == InFlight(s, op) /\ Apply(s, StepOf(World, reqs[s]))

register_user_start(s) ==
    /\ TokenLeft
    /\ \E r \in RegisterRequests : Arrive(s, [r EXCEPT !.faults = TRUE])

register_user_step(s) == Advance(s, "register")

activate_account_start(s) == \E r \in ActivateRequests : Arrive(s, r)

activate_account_step(s) == Advance(s, "activate")

request_password_reset_token_start(s) ==
    /\ TokenLeft
    /\ \E r \in RequestResetRequests : Arrive(s, r)

request_password_reset_token_step(s) == Advance(s, "request_reset")

reset_password_start(s) == \E r \in ResetRequests : Arrive(s, r)

reset_password_step(s) == Advance(s, "reset")

\* register requests interleave, and the store may fail any of their writes
RegisterNext ==
    \E s \in Slots :
        \/ register_user_start(s)
        \/ register_user_step(s)
        \/ Deliver(s)

RegisterSpec == Init /\ [][RegisterNext]_vars

\* the store after a@x.com registered at time 0 and was sent token 1
RegisteredInit ==
    /\ users = {UserModel_create(1, "a@x.com", "pw", "user")}
    /\ userGroups = {"user", "admin"}
    /\ activationTokens = {[user_id |-> 1, token |-> 1,
                            expires_at |-> ActivationTTL]}
    /\ resetTokens = {}
    /\ refreshTokens = {}
    /\ profiles = {}
    /\ movies = {}
    /\ nextToken = 2
    /\ consumed = {}
    /\ now = 0
    /\ reqs = [s \in Slots |-> Idle]

\* activate requests for a registered account interleave
ActivateNext ==
    \/ \E s \in Slots :
         \/ activate_account_start(s)
         \/ activate_account_step(s)
         \/ Deliver(s)
    \/ Tick

ActivateSpec == RegisteredInit /\ [][ActivateNext]_vars

\* lines 112-121 of an activate request that finds a record and goes on to
\* its commit; a request answered at its SELECT is a call served whole
activate_account_held(s) ==
    /\ Free(s)
    /\ \E r \in ActivateRequests :
         Apply(s, {o \in StepOf(World, r) : o.r.pc # "done"})

\* every account operation served whole in slot 1, while an activate request
\* in slot 2 waits between its SELECT and its commit: any call, a second
\* activate call included, falls between the two
OwnershipNext ==
    \/ Next /\ nextToken' <= MaxIssued + 1
    \/ activate_account_held(2)
    \/ activate_account_step(2)
    \/ Deliver(2)

OwnershipSpec == Init /\ [][OwnershipNext]_vars

\* the store after a@x.com registered with token 1 and activated with it
ActiveAccountInit ==
    /\ users = {[UserModel_create(1, "a@x.com", "pw", "user")
                    EXCEPT !.is_active = TRUE]}
    /\ userGroups = {"user", "admin"}
    /\ activationTokens = {}
    /\ resetTokens = {}
    /\ refreshTokens = {}
    /\ profiles = {}
    /\ movies = {}
    /\ nextToken = 2
    /\ consumed = {1}
    /\ now \in 0 .. 1
    /\ reqs = [s \in Slots |-> Idle]

\* reset requests and reset completions for an active account interleave
ResetNext ==
    \/ \E s \in Slots :
         \/ request_password_reset_token_start(s)
         \/ request_password_reset_token_step(s)
         \/ reset_password_start(s)
         \/ reset_password_step(s)
         \/ Deliver(s)
    \/ Tick

ResetSpec == ActiveAccountInit /\ [][ResetNext]_vars

\* ------------------------------------------------- logins and refreshes
\* the store after a@x.com registered and activated and b@x.com registered
LoginInit ==
    /\ users = {[UserModel_create(1, "a@x.com", "pw", "user")
                    EXCEPT !.is_active = TRUE],
                UserModel_create(2, "b@x.com", "pw", "user")}
    /\ userGroups = {"user", "admin"}
    /\ activationTokens = {[user_id |-> 2, token |-> 2,
                            expires_at |-> ActivationTTL]}
    /\ resetTokens = {}
    /\ refreshTokens = {}
    /\ profiles = {}
    /\ movies = {}
    /\ nextToken = 3
    /\ consumed = {1}
    /\ now = 0
    /\ reqs = [s \in Slots |-> Idle]

\* POST /login/ while the store may refuse the insert
login_user_faulty(s) ==
    /\ Free(s) /\ Cardinality(refreshTokens) < MaxLogins
    /\ \E r \in LoginRequests, f \in BOOLEAN :
           Apply(s, Run(World, [r EXCEPT !.faults = f]))

\* a RefreshToken record is deleted (the account is logged out or the row is
\* purged): no handler of the service does it
delete_refresh_token ==
    /\ \E t \in refreshTokens : refreshTokens' = refreshTokens \ {t}
    /\ UNCHANGED <<users, userGroups, activationTokens, resetTokens, profiles,
                   movies,
                   nextToken, consumed, now, reqs>>

LoginNext ==
    \/ login_user_faulty(1)
    \/ refresh_access_token(1)
    \/ delete_refresh_token
    \/ Deliver(1)
    \/ Tick

LoginSpec == LoginInit /\ [][LoginNext]_vars

\* ------------------------------------- requests a failing store serves
\* the requests rs, each served by a store that is reliable or not
Faulty(rs) == {[r EXCEPT !.faults = f] : r \in rs, f \in BOOLEAN}

register_user_faulty(s) ==
    /\ Free(s) /\ TokenLeft
    /\ \E r \in Faulty(RegisterRequests) : Apply(s, Run(World, r))

activate_account_faulty(s) ==
    /\ Free(s)
    /\ \E r \in Faulty(ActivateRequests) : Apply(s, Run(World, r))

request_password_reset_token_faulty(s) ==
    /\ Free(s) /\ TokenLeft
    /\ \E r \in Faulty(RequestResetRequests) : Apply(s, Run(World, r))

reset_password_faulty(s) ==
    /\ Free(s)
    /\ \E r \in Faulty(ResetRequests) : Apply(s, Run(World, r))

\* BackgroundTasks: after the response was sent the next queued task runs;
\* the mail is delivered or the sender raises, which is logged
run_background_task(s) ==
    /\ reqs[s].pc = "done" /\ reqs[s].bg # <<>>
    /\ \E outcome \in {"delivered", "failed"} :
           reqs' = [reqs EXCEPT ![s].bg = Tail(@),
                                ![s].sent = Append(@, outcome)]
    /\ UNCHANGED <<users, userGroups, activationTokens, resetTokens,
                   refreshTokens, profiles, movies, nextToken, consumed, now>>

FaultNext ==
    \/ register_user_faulty(1)
    \/ activate_account_faulty(1)
    \/ request_password_reset_token_faulty(1)
    \/ reset_password_faulty(1)
    \/ login_user_faulty(1)
    \/ run_background_task(1)
    \/ Deliver(1)
    \/ Tick

FaultSpec == Init /\ [][FaultNext]_vars

\* the operations that queue a notification, for one active account and one
\* email that is free, served by a store that may fail
NotifyNext ==
    \/ register_user_faulty(1)
    \/ request_password_reset_token_faulty(1)
    \/ reset_password_faulty(1)
    \/ run_background_task(1)
    \/ Deliver(1)
    \/ Tick

NotifySpec == ActiveAccountInit /\ [][NotifyNext]_vars

\* ------------------------------------------------- protected requests
\* a request of a protected endpoint with each kind of Authorization header;
\* at records the time it is served
Authorized(r) ==
    {[r EXCEPT !.header = h, !.jwt = IF h = "bearer" THEN {j} ELSE {},
               !.at = now] :
        h \in Headers, j \in AccessInputs}

CurrentUserRequests ==
    Authorized(NewRequest("current_user", "gcu_decode", "", "", 0))

CreateProfileRequests ==
    UNION {Authorized([NewRequest("create_profile", "cp_decode", "", "", 0)
                          EXCEPT !.user_id = id, !.form = f]) :
              id \in 1 .. Cardinality(Emails) + 1, f \in {"ok", "bad"}}

\* a request whose route depends on get_current_user
get_current_user(s) ==
    /\ Free(s)
    /\ \E r \in CurrentUserRequests : Apply(s, Run(World, r))

\* POST /users/{user_id}/profile/
create_profile(s) ==
    /\ Free(s)
    /\ \E r \in CreateProfileRequests : Apply(s, Run(World, r))

GateNext ==
    \/ \E s \in Slots :
         \/ get_current_user(s)
         \/ create_profile(s)
         \/ Deliver(s)
    \/ Tick

GateSpec == LoginInit /\ [][GateNext]_vars

\* ------------------------------------------------- profile requests
\* the store with an active account, an inactive one and an active
\* administrator, where the first account has a profile or none has
ProfileInit ==
    /\ users = {[UserModel_create(1, "a@x.com", "pw", "user")
                    EXCEPT !.is_active = TRUE],
                UserModel_create(2, "b@x.com", "pw", "user"),
                [UserModel_create(3, "admin@x.com", "pw", "admin")
                    EXCEPT !.is_active = TRUE]}
    /\ userGroups = {"user", "admin"}
    /\ activationTokens = {[user_id |-> 2, token |-> 2,
                            expires_at |-> ActivationTTL]}
    /\ resetTokens = {}
    /\ refreshTokens = {}
    /\ profiles \in {{}, {[id |-> 1, user_id |-> 1]}}
    /\ movies = {}
    /\ nextToken = 3
    /\ consumed = {1}
    /\ now = 0
    /\ reqs = [s \in Slots |-> Idle]

create_profile_start(s) == \E r \in CreateProfileRequests : Arrive(s, r)

create_profile_step(s) == Advance(s, "create_profile")

\* create_profile requests interleave at their awaits
ProfileNext ==
    \E s \in Slots :
        \/ create_profile_start(s)
        \/ create_profile_step(s)
        \/ Deliver(s)

ProfileSpec == ProfileInit /\ [][ProfileNext]_vars

\* --------------------------------------------------- catalog requests
\* data.name and data.date of a movie request
MovieNames == {"Alien", "Brazil"}

MovieDates == {"1979-05-25", "1985-02-20"}

\* POST /movies/
create_movie(s) ==
    /\ Free(s) /\ Cardinality(movies) < MaxMovies
    /\ \E n \in MovieNames, d \in MovieDates :
         Apply(s, Run(World, [NewRequest("create_movie", "cm_select", "", "", 0)
                                 EXCEPT !.name = n, !.date = d]))

\* PATCH /movies/{movie_id}/
update_movie(s) ==
    /\ Free(s)
    /\ \E id \in 1 .. MaxMovies,
          n \in MovieNames \cup {"None"}, d \in MovieDates \cup {"None"} :
         Apply(s, Run(World, [NewRequest("update_movie", "um_select", "", "", 0)
                                 EXCEPT !.movie_id = id, !.name = n,
                                        !.date = d]))

\* DELETE /movies/{movie_id}/
delete_movie(s) ==
    /\ Free(s)
    /\ \E id \in 1 .. MaxMovies :
         Apply(s, Run(World, [NewRequest("delete_movie", "dm_select", "", "", 0)
                                 EXCEPT !.movie_id = id]))

\* the catalog's writing routes, served one call at a time
MovieNext ==
    \/ create_movie(1)
    \/ update_movie(1)
    \/ delete_movie(1)
    \/ Deliver(1)

MovieSpec == Init /\ [][MovieNext]_vars

\* ================================================================ claims
\* slot s went from no task to a delivered response of handler op in this
\* step (requests served one by one)
Served(s, op) ==
    reqs[s].pc = "idle" /\ reqs'[s].pc = "done" /\ reqs'[s].op = op

\* slot s got its response in this step (requests that interleave)
Responded(s, op) ==
    reqs[s].pc # "done" /\ reqs'[s].pc = "done" /\ reqs'[s].op = op

ActivationTokensOf(rows, id) == {t \in rows : t.user_id = id}

\* C1: a register call for an email no account has, with the default group
\* present, answers 201 and leaves exactly one account for that email, which
\* is inactive and owns exactly one ActivationToken record.
C1_RegisterCreatesInactiveAccount ==
    [][(/\ Served(1, "register")
        /\ UserByEmail(World, reqs'[1].email) = {}
        /\ "user" \in userGroups)
       => LET created == {u \in users' : u.email = reqs'[1].email} IN
          /\ reqs'[1].status = 201
          /\ Cardinality(created) = 1
          /\ \A u \in created :
               /\ ~u.is_active
               /\ Cardinality(ActivationTokensOf(activationTokens', u.id)) = 1]_vars

\* a register call has just created an inactive account with its one token
C1_Witness ==
    /\ reqs[1].op = "register" /\ reqs[1].pc = "done" /\ reqs[1].status = 201
    /\ \E u \in users :
         /\ u.email = reqs[1].email /\ ~u.is_active
         /\ Cardinality(ActivationTokensOf(activationTokens, u.id)) = 1

\* C2: a register request that loses to another account with its email, in
\* any ordering of the two requests, is answered Conflict (409), and no two
\* accounts share an email.
C2_DuplicateRegistrationIsConflict ==
    /\ \A e \in Emails : Cardinality({u \in users : u.email = e}) <= 1
    /\ \A s \in Slots :
         (/\ reqs[s].op = "register" /\ reqs[s].pc = "done"
          /\ reqs[s].exc = "IntegrityError")
         => reqs[s].status = 409

\* C3: register persists the account and its activation token together: in
\* every state an account exists iff its activation token does, and a call
\* that fails at a write leaves the accounts and the tokens as they were.
C3_RegisterAtomic ==
    /\ [](/\ \A u \in users :
               Cardinality(ActivationTokensOf(activationTokens, u.id)) = 1
          /\ \A t \in activationTokens : \E u \in users : u.id = t.user_id)
    /\ [][\A s \in Slots :
            (Responded(s, "register") /\ reqs'[s].status = 500)
            => users' = users /\ activationTokens' = activationTokens]_vars

\* the store failed the commit of a register call and nothing of it is kept
C3_Witness ==
    \E s \in Slots :
        /\ reqs[s].op = "register" /\ reqs[s].pc = "done"
        /\ reqs[s].via = "reg_commit" /\ reqs[s].exc = "OperationalError"
        /\ UserByEmail(World, reqs[s].email) = {}
        /\ activationTokens = {}

\* C4: an activate call answered 200 leaves the account active and its token
\* record deleted, and the token is single-use: every activate call answered
\* after a call succeeded with the same token fails InvalidOrExpired.
C4_ActivationTokenSingleUse ==
    [][\A s \in Slots :
         Responded(s, "activate")
         => /\ reqs'[s].status = 200
               => /\ \A u \in UserByEmail(World', reqs'[s].email) : u.is_active
                  /\ ActivationByEmailToken(World', reqs'[s].email,
                                            reqs'[s].token) = {}
            /\ reqs'[s].token \in consumed
               => /\ reqs'[s].status = 400
                  /\ reqs'[s].detail = ERR_ACT_TOKEN]_vars

\* C5: an activate call whose (email, token) record is past its expiry fails
\* InvalidOrExpired, leaves every account as it was and removes the record;
\* the same call with no record left fails the same way and changes nothing.
C5_ExpiredActivationFails ==
    [][Served(1, "activate")
       => LET rows == ActivationByEmailToken(World, reqs'[1].email,
                                             reqs'[1].token)
          IN
          /\ (rows # {} /\ \A t \in rows : t.expires_at < now)
             => /\ reqs'[1].status = 400
                /\ reqs'[1].detail = ERR_ACT_TOKEN
                /\ users' = users
                /\ activationTokens' = activationTokens \ rows
          /\ rows = {}
             => /\ reqs'[1].status = 400
                /\ reqs'[1].detail = ERR_ACT_TOKEN
                /\ users' = users
                /\ activationTokens' = activationTokens]_vars

\* an expired activation token was presented: 400, the account of that email
\* is still inactive and owns no record any more
C5_Witness ==
    /\ reqs[1].op = "activate" /\ reqs[1].pc = "done"
    /\ reqs[1].via = "act_commit_expired" /\ reqs[1].status = 400
    /\ \E u \in users :
         /\ u.email = reqs[1].email /\ ~u.is_active
         /\ ActivationTokensOf(activationTokens, u.id) = {}

\* C6: no account is ever removed; the active flag of an account changes only
\* from false to true and only in a step in which an activate call is
\* answered 200; accounts are created inactive.
C6_ActiveFlagLifecycle ==
    [][/\ \A u \in users : \E v \in users' :
            /\ v.id = u.id
            /\ u.is_active => v.is_active
            /\ v.is_active # u.is_active
               => Served(1, "activate") /\ reqs'[1].status = 200
       /\ \A v \in users' :
            (\A u \in users : u.id # v.id) => ~v.is_active]_vars

\* a password reset was completed for an account, which is still active
C6_Witness ==
    /\ reqs[1].op = "reset" /\ reqs[1].pc = "done" /\ reqs[1].status = 200
    /\ \E u \in users :
         /\ u.email = reqs[1].email /\ u.is_active
         /\ verify_password(u, reqs[1].password)

\* C7: every request-password-reset call is answered with status 200 and the
\* one generic message, whatever accounts the store holds.
C7_ResetRequestAnswerIsGeneric ==
    \A s \in Slots :
        (reqs[s].op = "request_reset" /\ reqs[s].pc = "done")
        => /\ reqs[s].status = 200
           /\ reqs[s].detail = MSG_RESET_GENERIC
           /\ reqs[s].out = {}

\* the generic answer was given for an email that no account has, while an
\* active account holds a reset record issued by an earlier call
C7_Witness ==
    /\ reqs[1].op = "request_reset" /\ reqs[1].pc = "done"
    /\ UserByEmail(World, reqs[1].email) = {}
    /\ \E u \in users : u.is_active /\ ResetTokensOf(World, {u.id}) # {}

\* C8: every account owns at most one PasswordResetToken record, also when
\* request-password-reset calls for the account interleave.
C8_AtMostOneResetToken ==
    \A u \in users : Cardinality(ResetTokensOf(World, {u.id})) <= 1

\* C9: a complete-password-reset call for an active account that holds a
\* reset record fails the same way when the token string differs from the
\* record's and when it matches an expired record: 400 with the one message,
\* the record deleted, every account (and its password) as it was.
C9_MismatchFailsLikeExpired ==
    [][Served(1, "reset")
       => \A u \in UserByEmail(World, reqs'[1].email) :
            \A t \in ResetTokensOf(World, {u.id}) :
               (u.is_active /\ (t.token # reqs'[1].token \/ t.expires_at < now))
               => /\ reqs'[1].status = 400
                  /\ reqs'[1].detail = ERR_RESET
                  /\ reqs'[1].out = {}
                  /\ users' = users
                  /\ resetTokens' = resetTokens \ {t}]_vars

\* the matching but expired record was presented: 400 and the record is gone
C9_Witness ==
    /\ reqs[1].op = "reset" /\ reqs[1].pc = "done"
    /\ reqs[1].via = "rp_commit_expired" /\ reqs[1].status = 400
    /\ \E u \in users :
         /\ u.email = reqs[1].email /\ u.is_active
         /\ ResetTokensOf(World, {u.id}) = {}

\* C10: a complete-password-reset call answered 200 has set the password and
\* deleted the record, and the token completes one reset at most: every call
\* answered after a call succeeded with the same token fails and leaves the
\* accounts as they were.
C10_ResetTokenSingleUse ==
    [][\A s \in Slots :
         Responded(s, "reset")
         => /\ reqs'[s].status = 200
               => \A u \in UserByEmail(World', reqs'[s].email) :
                     /\ verify_password(u, reqs'[s].password)
                     /\ \A t \in ResetTokensOf(World', {u.id}) :
                           t.token # reqs'[s].token
            /\ reqs'[s].token \in consumed
               => /\ reqs'[s].status # 200
                  /\ users' = users]_vars

\* C11: a login call for an email no account has and a login call for an
\* existing email with a password that is not the account's are answered
\* alike: 401 with the one message, no tokens, and no RefreshToken record
\* added or removed.
C11_LoginFailuresAlike ==
    [][Served(1, "login")
       => LET user == {u \in users : u.email = reqs'[1].email} IN
          (user = {} \/ \E u \in user : u.password # Hash(reqs'[1].password))
          => /\ reqs'[1].status = 401
             /\ reqs'[1].detail = ERR_LOGIN
             /\ reqs'[1].out = {}
             /\ reqs'[1].exc = "none"
             /\ refreshTokens' = refreshTokens]_vars

\* a login with a wrong password for an existing active account was answered
\* 401, in a store where some other email belongs to no account
C11_Witness ==
    /\ reqs[1].op = "login" /\ reqs[1].pc = "done" /\ reqs[1].status = 401
    /\ \E u \in users : u.email = reqs[1].email /\ u.is_active
                         /\ ~verify_password(u, reqs[1].password)
    /\ \E e \in Emails : UserByEmail(World, e) = {}

\* C12: a login call answered 201 returns a refresh token for which the store
\* then holds a RefreshToken record with exactly that string, owned by the
\* account of the email; no login call removes or changes a record of an
\* earlier login; a login call not answered 201 returns no tokens and leaves
\* the records as they were.
C12_LoginPersistsRefreshToken ==
    [][Served(1, "login")
       => /\ refreshTokens \subseteq refreshTokens'
          /\ reqs'[1].status = 201
             => /\ reqs'[1].out # {}
                /\ \A o \in reqs'[1].out :
                     \E u \in users, t \in refreshTokens' :
                        /\ u.email = reqs'[1].email
                        /\ t.token = o.refresh_token
                        /\ t.user_id = u.id
          /\ reqs'[1].status # 201
             => reqs'[1].out = {} /\ refreshTokens' = refreshTokens]_vars

\* a second login was answered 201 and the record of the first is still there
C12_Witness ==
    /\ reqs[1].op = "login" /\ reqs[1].pc = "done" /\ reqs[1].status = 201
    /\ Cardinality({t \in refreshTokens : t.user_id = 1}) = 2

\* C13: a refresh call whose token decodes (a refresh token, not expired) but
\* whose exact string no RefreshToken record holds is answered 401 'Refresh
\* token not found.' and returns no access token.
C13_RefreshNeedsRecord ==
    [][Served(1, "refresh")
       => \A j \in reqs'[1].jwt :
            (/\ j.typ = "refresh" /\ ~(j.exp < now)
             /\ \A t \in refreshTokens : t.token # j)
            => /\ reqs'[1].status = 401
               /\ reqs'[1].detail = ERR_REFRESH_MISSING
               /\ reqs'[1].out = {}]_vars

\* the refresh token a login returned was presented after its record had been
\* deleted, and was refused
C13_Witness ==
    /\ reqs[1].op = "refresh" /\ reqs[1].pc = "done" /\ reqs[1].status = 401
    /\ refreshTokens = {}
    /\ \E j \in reqs[1].jwt :
         j = [typ |-> "refresh", user_id |-> 1, exp |-> RefreshTTL] /\ now = 1

\* C14: a refresh call adds, changes and deletes no record of the store, and
\* a refresh token that decodes, whose record exists and whose subject exists
\* is exchanged (200 with an access token) every time it is presented.
C14_RefreshDoesNotRotate ==
    [][Served(1, "refresh")
       => /\ UNCHANGED <<users, userGroups, activationTokens, resetTokens,
                         refreshTokens, profiles>>
          /\ \A j \in reqs'[1].jwt :
               (/\ j.typ = "refresh" /\ ~(j.exp < now)
                /\ \E t \in refreshTokens : t.token = j
                /\ \E u \in users : u.id = j.user_id)
               => /\ reqs'[1].status = 200
                  /\ reqs'[1].out # {}]_vars

\* a refresh token was exchanged and its record is still in the store
C14_Witness ==
    /\ reqs[1].op = "refresh" /\ reqs[1].pc = "done" /\ reqs[1].status = 200
    /\ \E j \in reqs[1].jwt, t \in refreshTokens : t.token = j

\* C15: a login call answered 201 returns a refresh token whose subject is
\* the id of the account that logged in, and a refresh call answered 200
\* returns an access token whose subject is the subject of the refresh token
\* presented, which is the owner of the record login stored for it.
C15_RefreshKeepsSubject ==
    [][/\ (Served(1, "login") /\ reqs'[1].status = 201)
          => \A o \in reqs'[1].out, u \in users :
                u.email = reqs'[1].email
                => /\ o.refresh_token.user_id = u.id
                   /\ o.access_token.user_id = u.id
       /\ (Served(1, "refresh") /\ reqs'[1].status = 200)
          => \A j \in reqs'[1].jwt :
                /\ reqs'[1].out # {}
                /\ \A o \in reqs'[1].out :
                      /\ o.access_token.typ = "access"
                      /\ o.access_token.user_id = j.user_id
                /\ \A t \in refreshTokens :
                      t.token = j => t.user_id = j.user_id]_vars

\* the second account registered, activated and logged in, and the refresh
\* token of that login was exchanged for an access token of the same subject
C15_Witness ==
    /\ reqs[1].op = "refresh" /\ reqs[1].pc = "done" /\ reqs[1].status = 200
    /\ \E j \in reqs[1].jwt, o \in reqs[1].out, u \in users :
         /\ u.id = 2 /\ u.is_active /\ j.user_id = u.id
         /\ o.access_token.user_id = u.id
         /\ \E t \in refreshTokens : t.token = j /\ t.user_id = u.id

ValidBearer(r) ==
    /\ r.header = "bearer"
    /\ \E j \in r.jwt :
         /\ j.typ = "access" /\ ~(j.exp < now) /\ j.user_id # 0
         /\ \E u \in users : u.id = j.user_id /\ u.is_active

\* C17: get_current_user returns an account exactly when the bearer token is
\* an unexpired access token whose subject is an existing active account, and
\* that account is the subject; otherwise it answers 401; it never changes
\* the store. create_profile gets past its authentication (lines 63-84)
\* exactly in the same case, and answers 401 with the store unchanged
\* otherwise.
C17_GateAdmitsActiveSubjectOnly ==
    [][\A s \in Slots :
         /\ Served(s, "current_user")
            => /\ UNCHANGED <<users, userGroups, activationTokens, resetTokens,
                              refreshTokens, profiles>>
               /\ ValidBearer(reqs'[s])
                  => /\ reqs'[s].status = 200
                     /\ \A j \in reqs'[s].jwt :
                          reqs'[s].out = {u \in users : u.id = j.user_id}
               /\ ~ValidBearer(reqs'[s])
                  => reqs'[s].status = 401 /\ reqs'[s].out = {}
         /\ Served(s, "create_profile")
            => /\ ValidBearer(reqs'[s])
                  => reqs'[s].via \notin {"cp_decode", "cp_select_user"}
               /\ ~ValidBearer(reqs'[s])
                  => /\ reqs'[s].status = 401
                     /\ reqs'[s].via \in {"cp_decode", "cp_select_user"}
                     /\ UNCHANGED <<users, userGroups, activationTokens,
                                    resetTokens, refreshTokens, profiles>>]_vars

\* an unexpired access token of the inactive account was presented and the
\* gate refused it
C17_Witness ==
    /\ reqs[1].op = "current_user" /\ reqs[1].pc = "done"
    /\ reqs[1].status = 401 /\ reqs[1].via = "gcu_select"
    /\ \E j \in reqs[1].jwt, u \in users :
         u.id = j.user_id /\ ~u.is_active /\ ~(j.exp < now)

\* the authentication violation of the request in r, "none" when the header
\* and the token are in order
Violation(r) ==
    IF r.header = "missing" THEN "missing"
    ELSE IF r.header = "malformed" THEN "malformed"
    ELSE IF \E j \in r.jwt : j.typ = "access" /\ j.exp < r.at THEN "expired"
    ELSE IF \E j \in r.jwt : j.typ # "access" THEN "invalid"
    ELSE "none"

\* C18: on a protected endpoint each of the four authentication violations
\* (header missing, header malformed, token expired, token invalid) is
\* answered 401, and two requests of one endpoint with different violations
\* get different messages.
C18_GateMessagesDistinct ==
    \A s, t \in Slots :
        LET a == reqs[s]
            b == reqs[t]
        IN
        (/\ a.pc = "done" /\ b.pc = "done" /\ a.op = b.op
         /\ a.op \in {"current_user", "create_profile"}
         /\ Violation(a) # "none" /\ Violation(b) # "none")
        => /\ a.status = 401
           /\ Violation(a) # Violation(b) => a.detail # b.detail

\* the operations on accounts
AccountOps == {"register", "activate", "request_reset", "reset", "login"}

\* C19: in every account operation a failure of the store at a write or a
\* commit is caught by the handler: the call is answered 500 by the handler
\* itself, no error leaves the handler as raised, and the store is as it was
\* before the call. (The read of line 85, db.refresh after the commit, is no
\* write and is left out.)
C19_StoreFailuresAreCaught ==
    [][\A op \in AccountOps :
         (/\ Served(1, op) /\ reqs'[1].exc = "OperationalError"
          /\ reqs'[1].via # "reg_refresh")
         => /\ reqs'[1].status = 500
            /\ ~reqs'[1].propagated
            /\ UNCHANGED <<users, activationTokens, resetTokens,
                           refreshTokens>>]_vars

\* the mails the call in slot 1 has queued
Queued == {reqs'[1].bg[i] : i \in 1 .. Len(reqs'[1].bg)}

\* C20: a call queues a notification only when it succeeded, after its
\* commit and exactly once: register answered 201 queues the activation mail
\* for the token it stored, request-password-reset for an active account the
\* reset mail for the record it stored, complete-password-reset answered 200
\* the password-changed mail; every failing call and the no-account and
\* inactive branches of request-password-reset queue nothing; running a
\* queued task, delivered or not, changes neither the response nor the store.
C20_NotifyAfterCommitOnce ==
    [][/\ Served(1, "register")
          => IF reqs'[1].status = 201
             THEN /\ Len(reqs'[1].bg) = 1
                  /\ \A m \in Queued :
                       /\ m.task = "send_activation_email"
                       /\ m.email = reqs'[1].email
                       /\ \E u \in users', t \in activationTokens' :
                            /\ u.email = m.email /\ t.user_id = u.id
                            /\ t.token = m.token
             ELSE reqs'[1].bg = <<>>
       /\ Served(1, "request_reset")
          => IF /\ \E u \in users : u.email = reqs'[1].email /\ u.is_active
                /\ reqs'[1].status = 200
             THEN /\ Len(reqs'[1].bg) = 1
                  /\ \A m \in Queued :
                       /\ m.task = "send_password_reset_email"
                       /\ m.email = reqs'[1].email
                       /\ \E u \in users', t \in resetTokens' :
                            /\ u.email = m.email /\ t.user_id = u.id
                            /\ t.token = m.token
             ELSE reqs'[1].bg = <<>>
       /\ Served(1, "reset")
          => IF reqs'[1].status = 200
             THEN /\ Len(reqs'[1].bg) = 1
                  /\ \A m \in Queued :
                       /\ m.task = "send_password_reset_success_email"
                       /\ m.email = reqs'[1].email
                       /\ \E u \in users' :
                            /\ u.email = m.email
                            /\ u.password = Hash(reqs'[1].password)
             ELSE reqs'[1].bg = <<>>
       /\ (reqs[1].pc = "done" /\ reqs'[1].pc = "done")
          => /\ reqs'[1].status = reqs[1].status
             /\ reqs'[1].detail = reqs[1].detail
             /\ reqs'[1].out = reqs[1].out
             /\ UNCHANGED <<users, activationTokens, resetTokens,
                            refreshTokens>>]_vars

\* the reset mail of a request-password-reset call was run and failed, and
\* the call's answer and the record it stored are as they were
C20_Witness ==
    /\ reqs[1].op = "request_reset" /\ reqs[1].pc = "done"
    /\ reqs[1].status = 200 /\ reqs[1].faults
    /\ reqs[1].bg = <<>> /\ reqs[1].sent = <<"failed">>
    /\ \E u \in users, t \in resetTokens :
         u.email = reqs[1].email /\ t.user_id = u.id

\* C21: a login call is answered 403 'User account is not activated.' exactly
\* when the email has an account, the password is the account's and the
\* account is inactive; a wrong password for an inactive account is answered
\* 401 like any wrong password; a login call not answered 201 leaves the
\* RefreshToken records as they were.
C21_LoginInactiveAfterPassword ==
    [][Served(1, "login")
       => LET inactive_ok ==
                \E u \in users : /\ u.email = reqs'[1].email
                                  /\ u.password = Hash(reqs'[1].password)
                                  /\ ~u.is_active
              inactive_wrong ==
                \E u \in users : /\ u.email = reqs'[1].email
                                  /\ u.password # Hash(reqs'[1].password)
                                  /\ ~u.is_active
          IN
          /\ (reqs'[1].status = 403) = inactive_ok
          /\ inactive_ok => reqs'[1].detail = ERR_NOT_ACTIVE
          /\ inactive_wrong
             => reqs'[1].status = 401 /\ reqs'[1].detail = ERR_LOGIN
          /\ reqs'[1].status # 201 => refreshTokens' = refreshTokens]_vars

\* the inactive account's own password was presented and answered 403, while
\* an earlier login of the active account has its record in the store
C21_Witness ==
    /\ reqs[1].op = "login" /\ reqs[1].pc = "done" /\ reqs[1].status = 403
    /\ \E u \in users : /\ u.email = reqs[1].email /\ ~u.is_active
                         /\ verify_password(u, reqs[1].password)
    /\ refreshTokens # {}

\* C22: an activate call for the email of an account that owns an activation
\* record, with a token string that is not the record's, is answered 400
\* 'Invalid or expired activation token.' and leaves every account and every
\* activation record as it was, so the right token still activates; a
\* complete-password-reset call with a token string that is not the record's
\* deletes the record.
C22_ActivateMismatchKeepsRecord ==
    [][/\ Served(1, "activate")
          => \A u \in users :
               (/\ u.email = reqs'[1].email
                /\ \E t \in activationTokens : t.user_id = u.id
                /\ \A t \in activationTokens :
                      t.user_id = u.id => t.token # reqs'[1].token)
               => /\ reqs'[1].status = 400
                  /\ reqs'[1].detail = ERR_ACT_TOKEN
                  /\ users' = users
                  /\ activationTokens' = activationTokens
       /\ Served(1, "activate")
          => \A u \in users, t \in activationTokens :
               (/\ u.email = reqs'[1].email /\ ~u.is_active
                /\ t.user_id = u.id /\ t.token = reqs'[1].token
                /\ ~(t.expires_at < now))
               => reqs'[1].status = 200
       /\ Served(1, "reset")
          => \A u \in users, t \in resetTokens :
               (/\ u.email = reqs'[1].email /\ u.is_active
                /\ t.user_id = u.id /\ t.token # reqs'[1].token)
               => t \notin resetTokens']_vars

\* a wrong token string was presented for an inactive account, which still
\* owns its unexpired record
C22_Witness ==
    /\ reqs[1].op = "activate" /\ reqs[1].pc = "done" /\ reqs[1].status = 400
    /\ \E u \in users, t \in activationTokens :
         /\ u.email = reqs[1].email /\ ~u.is_active
         /\ t.user_id = u.id /\ t.token # reqs[1].token
         /\ ~(t.expires_at < now)

\* C23: in every state reached by register, activate, reset, login and
\* refresh calls, activate requests interleaving, an account whose is_active
\* flag is true owns no activation record, and no activate call is answered
\* 'User account is already active.'.
C23_ActiveOwnsNoActivationToken ==
    /\ \A u \in users :
         u.is_active => ~\E t \in activationTokens : t.user_id = u.id
    /\ \A s \in Slots : reqs[s].detail # ERR_ALREADY_ACTIVE

\* two activate requests ran together on one record and the account is active
C23_Witness ==
    /\ \A s \in Slots :
         /\ reqs[s].op = "activate" /\ reqs[s].pc = "done"
         /\ reqs[s].status = 200
    /\ reqs[1].email = reqs[2].email
    /\ \E u \in users : u.email = reqs[1].email /\ u.is_active

\* the subject of the bearer token of r is the account r.user_id names, or an
\* account of the admin group
OwnerOrAdmin(r) ==
    \E j \in r.jwt, u \in users :
        /\ u.id = j.user_id
        /\ u.id = r.user_id \/ u.group = "admin"

\* C24: a create_profile call of an authenticated caller who is neither the
\* account user_id names nor of the admin group is answered 403 'You don't
\* have permission to edit this profile.' and adds no profile; the call of
\* the account itself or of an administrator gets past the permission test;
\* a profile for user_id is only ever added by such a call.
C24_ProfileOwnerOrAdminOnly ==
    [][/\ \A s \in Slots :
            (Responded(s, "create_profile") /\ ValidBearer(reqs'[s]))
            => /\ ~OwnerOrAdmin(reqs'[s])
                  => /\ reqs'[s].status = 403
                     /\ reqs'[s].detail = ERR_FORBIDDEN
                     /\ profiles' = profiles
               /\ OwnerOrAdmin(reqs'[s])
                  => /\ reqs'[s].status # 403
                     /\ reqs'[s].via \notin
                           {"cp_decode", "cp_select_user"}
       /\ \A p \in profiles' \ profiles :
            \E s \in Slots :
                /\ Responded(s, "create_profile")
                /\ ValidBearer(reqs'[s]) /\ OwnerOrAdmin(reqs'[s])
                /\ reqs'[s].user_id = p.user_id]_vars

\* an active account asked for the profile of another account and was
\* refused, while the administrator's request for another account went on to
\* the checks after the permission test
C24_Witness ==
    /\ reqs[1].op = "create_profile" /\ reqs[1].pc = "done"
    /\ reqs[1].status = 403 /\ ValidBearer(reqs[1])
    /\ \E j \in reqs[1].jwt, u \in users :
         u.id = j.user_id /\ u.id # reqs[1].user_id /\ u.group # "admin"
    /\ reqs[2].op = "create_profile" /\ reqs[2].pc = "done"
    /\ reqs[2].via = "cp_select_profile" /\ ValidBearer(reqs[2])
    /\ \E j \in reqs[2].jwt, u \in users :
         u.id = j.user_id /\ u.id # reqs[2].user_id /\ u.group = "admin"

C26_MovieNameDateUnique ==
    \A m1 \in movies, m2 \in movies :
        (m1.name = m2.name /\ m1.date = m2.date) => m1.id = m2.id
====
